---- MODULE Spec2Model ----
(***************************************************************************)
(* Model of the expense-extraction code of expenseTrackerBackend:          *)
(*   - src/src/utility/getEmailExpense.ts  (handleGetEmailExpense,         *)
(*     extractAmounts, determineCategory, createTitle)                     *)
(*   - src/unnamed/part_000                (extractItemsFromMarkdown,      *)
(*     extractJSON, handleGetInvoiceData)                                  *)
(* Texts are TLA+ strings and the regular expressions of the source are    *)
(* evaluated character by character.  Amounts are held in hundredths       *)
(* (cents), so 45.00 is 4500; the texts carry at most two decimals.        *)
(***************************************************************************)
EXTENDS Integers, Sequences, FiniteSets, TLC

VARIABLES
    fn,            \* the function under invocation
    pc,            \* "call": the argument is bound, "done": it has returned or thrown
    emailText,     \* argument of handleGetEmailExpense
    amountMatches, \* what extractAmounts(emailText) returned
    expenseData,   \* outcome of handleGetEmailExpense
    content,       \* response.choices[0].message.content of the vision model
    parsedData,    \* what extractJSON(content) returned
    invoiceData,   \* outcome of handleGetInvoiceData
    text,          \* argument of determineCategory
    category,      \* what determineCategory(text) returned
    run,           \* each run of processAllUsersEmails: where it is and what it holds
    processedEmails, \* the ProcessedEmail collection: <<messageId, userId>> pairs
    expenses,      \* the stored expenses of each user
    emailBody,     \* the body of each listed message, "none" for a message without
    failures       \* the awaited calls that have failed so far

\* the variables of one call of a function
callVars == <<fn, pc, emailText, amountMatches, expenseData,
              content, parsedData, invoiceData, text, category>>

\* the variables of the e-mail ingestion
ingestVars == <<run, processedEmails, expenses, emailBody, failures>>

vars == <<callVars, ingestVars>>

None == "none"

----------------------------------------------------------------------------
(* Strings *)

Char(s, i) == SubSeq(s, i, i)

Min(S) == CHOOSE x \in S : \A y \in S : x <= y
Max(S) == CHOOSE x \in S : \A y \in S : x >= y

IsDigit(c) == c \in {"0", "1", "2", "3", "4", "5", "6", "7", "8", "9"}

\* \s of the regular expressions and the white space of String.prototype.trim
IsSpace(c) == c \in {" ", "\n", "\t"}

UpperToLower ==
    ("A" :> "a") @@ ("B" :> "b") @@ ("C" :> "c") @@ ("D" :> "d") @@ ("E" :> "e") @@
    ("F" :> "f") @@ ("G" :> "g") @@ ("H" :> "h") @@ ("I" :> "i") @@ ("J" :> "j") @@
    ("K" :> "k") @@ ("L" :> "l") @@ ("M" :> "m") @@ ("N" :> "n") @@ ("O" :> "o") @@
    ("P" :> "p") @@ ("Q" :> "q") @@ ("R" :> "r") @@ ("S" :> "s") @@ ("T" :> "t") @@
    ("U" :> "u") @@ ("V" :> "v") @@ ("W" :> "w") @@ ("X" :> "x") @@ ("Y" :> "y") @@
    ("Z" :> "z")

IsUpper(c) == c \in DOMAIN UpperToLower
IsLower(c) == c \in {UpperToLower[u] : u \in DOMAIN UpperToLower}

RECURSIVE LowerFrom(_, _)
LowerFrom(s, i) ==
    IF i > Len(s) THEN ""
    ELSE (IF IsUpper(Char(s, i)) THEN UpperToLower[Char(s, i)] ELSE Char(s, i))
         \o LowerFrom(s, i + 1)

\* String.prototype.toLowerCase
ToLowerCase(s) == LowerFrom(s, 1)

\* s has w at position i (1-based)
StartsWithAt(s, i, w) ==
    /\ i >= 1
    /\ i + Len(w) - 1 <= Len(s)
    /\ SubSeq(s, i, i + Len(w) - 1) = w

\* String.prototype.includes
Includes(s, w) == \E i \in 1..(Len(s) - Len(w) + 1) : StartsWithAt(s, i, w)

\* the first position >= from where w occurs in s, 0 when there is none
IndexOfFrom(s, w, from) ==
    LET at == {i \in from..(Len(s) - Len(w) + 1) : StartsWithAt(s, i, w)}
    IN  IF at = {} THEN 0 ELSE Min(at)

\* the position after the white space that starts at i
RECURSIVE SkipSpace(_, _)
SkipSpace(s, i) ==
    IF i <= Len(s) /\ IsSpace(Char(s, i)) THEN SkipSpace(s, i + 1) ELSE i

\* String.prototype.trim
Trim(s) ==
    LET keep == {i \in 1..Len(s) : ~IsSpace(Char(s, i))}
    IN  IF keep = {} THEN "" ELSE SubSeq(s, Min(keep), Max(keep))

----------------------------------------------------------------------------
(* Category classifier: getEmailExpense.ts *)

\* the closed vocabulary of category labels
validHeads ==
    <<"food", "rent", "travel", "utility", "entertainment", "shopping", "health",
      "education", "gift", "fitness", "investment", "unknown">>

Heads == {validHeads[i] : i \in 1..Len(validHeads)}

\* the keyword table, in the order Object.entries walks it
categoryKeywords ==
    << [category |-> "food", keywords |->
          <<"food", "restaurant", "meal", "lunch", "dinner", "breakfast", "cafe",
            "grocery", "groceries", "takeout", "doordash", "uber eats", "grubhub">>],
       [category |-> "rent", keywords |->
          <<"rent", "lease", "housing", "apartment", "mortgage", "property">>],
       [category |-> "travel", keywords |->
          <<"travel", "flight", "hotel", "airfare", "airline", "booking", "trip",
            "vacation", "uber", "lyft", "taxi", "car rental">>],
       [category |-> "utility", keywords |->
          <<"utility", "electric", "water", "gas", "internet", "phone", "bill",
            "cable", "subscription">>],
       [category |-> "entertainment", keywords |->
          <<"entertainment", "movie", "theatre", "concert", "show", "netflix",
            "spotify", "hulu", "disney+", "prime", "subscription">>],
       [category |-> "shopping", keywords |->
          <<"shopping", "purchase", "amazon", "store", "retail", "mall", "online",
            "buy", "bought">>],
       [category |-> "health", keywords |->
          <<"health", "medical", "doctor", "hospital", "pharmacy", "medicine",
            "prescription", "dental", "healthcare">>],
       [category |-> "education", keywords |->
          <<"education", "tuition", "school", "college", "university", "course",
            "class", "book", "textbook">>],
       [category |-> "gift", keywords |->
          <<"gift", "present", "donation", "charity">>],
       [category |-> "fitness", keywords |->
          <<"fitness", "gym", "workout", "exercise", "sport", "membership">> ],
       [category |-> "investment", keywords |->
          <<"investment", "stock", "bond", "mutual fund", "etf", "crypto", "bitcoin",
            "ethereum", "trading">>] >>

\* the substrings of t that are n long
Substrings(t, n) == {SubSeq(t, i, i + n - 1) : i \in 1..(Len(t) - n + 1)}

KeywordLengths ==
    UNION { {Len(categoryKeywords[c].keywords[k]) :
                k \in 1..Len(categoryKeywords[c].keywords)} :
            c \in 1..Len(categoryKeywords) }

\* the inner loop of determineCategory from keyword k on; text.includes(keyword)
\* is read off subs, the substrings of the text by length
RECURSIVE AnyKeywordFrom(_, _, _)
AnyKeywordFrom(subs, keywords, k) ==
    IF k > Len(keywords) THEN FALSE
    ELSE IF keywords[k] \in subs[Len(keywords[k])] THEN TRUE
    ELSE AnyKeywordFrom(subs, keywords, k + 1)

\* the outer loop of determineCategory, from table entry c on
RECURSIVE CategoryFrom(_, _)
CategoryFrom(subs, c) ==
    IF c > Len(categoryKeywords) THEN "unknown"
    ELSE IF AnyKeywordFrom(subs, categoryKeywords[c].keywords, 1)
         THEN categoryKeywords[c].category
    ELSE CategoryFrom(subs, c + 1)

\* the table walked from its last entry to its first
determineCategoryLastWins(t) ==
    LET subs == [n \in KeywordLengths |-> Substrings(t, n)]
        hits == {c \in 1..Len(categoryKeywords) :
                    AnyKeywordFrom(subs, categoryKeywords[c].keywords, 1)}
    IN  IF hits = {} THEN "unknown" ELSE categoryKeywords[Max(hits)].category

\* the outer loop started one entry late
determineCategoryFromSecond(t) ==
    CategoryFrom([n \in KeywordLengths |-> Substrings(t, n)], 2)

determineCategory(t) ==
    CategoryFrom([n \in KeywordLengths |-> Substrings(t, n)], 1)

----------------------------------------------------------------------------
(* extractAmounts: getEmailExpense.ts *)

DigitValue(c) ==
    CASE c = "0" -> 0 [] c = "1" -> 1 [] c = "2" -> 2 [] c = "3" -> 3 [] c = "4" -> 4
      [] c = "5" -> 5 [] c = "6" -> 6 [] c = "7" -> 7 [] c = "8" -> 8 [] c = "9" -> 9

DigitAt(s, i) == i >= 1 /\ i <= Len(s) /\ IsDigit(Char(s, i))

\* how many digits, at most 3, stand at position i: the greedy \d{1,3}
LeadDigits(s, i) ==
    IF ~DigitAt(s, i) THEN 0
    ELSE IF ~DigitAt(s, i + 1) THEN 1
    ELSE IF ~DigitAt(s, i + 2) THEN 2
    ELSE 3

\* one ",ddd" group stands at position p
GroupAt(s, p) ==
    /\ p <= Len(s) /\ Char(s, p) = ","
    /\ DigitAt(s, p + 1) /\ DigitAt(s, p + 2) /\ DigitAt(s, p + 3)

\* how many consecutive ",ddd" groups stand at position p: the greedy (?:,\d{3})*
RECURSIVE GroupCount(_, _)
GroupCount(s, p) == IF GroupAt(s, p) THEN 1 + GroupCount(s, p + 4) ELSE 0

\* the position after an optional ".dd" at p: the greedy (?:\.\d{2})?
AfterDecimals(s, p) ==
    IF p <= Len(s) /\ Char(s, p) = "." /\ DigitAt(s, p + 1) /\ DigitAt(s, p + 2)
    THEN p + 3 ELSE p

\* The ends (exclusive) the group \d{1,3}(?:,\d{3})*(?:\.\d{2})? can take when it
\* starts at i, in the order the backtracking matcher tries them: most digits
\* first, then most groups, then with the decimals before without.
RECURSIVE NumberEndsWith(_, _, _, _)
NumberEndsWith(s, i, d, k) ==
    LET p == i + d + 4 * k
        here == IF AfterDecimals(s, p) # p THEN <<AfterDecimals(s, p), p>> ELSE <<p>>
    IN  IF k = 0 THEN here ELSE here \o NumberEndsWith(s, i, d, k - 1)

RECURSIVE NumberEndsFrom(_, _, _)
NumberEndsFrom(s, i, d) ==
    IF d = 0 THEN <<>>
    ELSE NumberEndsWith(s, i, d, GroupCount(s, i + d)) \o NumberEndsFrom(s, i, d - 1)

NumberEnds(s, i) == NumberEndsFrom(s, i, LeadDigits(s, i))

\* the end (exclusive) of the number when nothing follows it in the pattern, 0 if none
NumberEnd(s, i) == IF LeadDigits(s, i) = 0 THEN 0 ELSE NumberEnds(s, i)[1]

\* (?:USD|dollars|dollar), case-insensitive, at position p of the lower-cased text:
\* the position after it, 0 when it is not there
CurrencyWordEnd(low, p) ==
    IF StartsWithAt(low, p, "usd") THEN p + 3
    ELSE IF StartsWithAt(low, p, "dollars") THEN p + 7
    ELSE IF StartsWithAt(low, p, "dollar") THEN p + 6
    ELSE 0

NoMatch == [ok |-> FALSE, from |-> 0, to |-> 0, numFrom |-> 0, numTo |-> 0]

\* a match over positions from..to-1 whose group 1 is numFrom..numTo-1; the number
\* ends the pattern
NumberMatch(s, from, numFrom) ==
    LET e == NumberEnd(s, numFrom)
    IN  IF e = 0 THEN NoMatch
        ELSE [ok |-> TRUE, from |-> from, to |-> e, numFrom |-> numFrom, numTo |-> e]

\* \s*\$?\s* and then the number
DollarNumber(s, from, p) ==
    LET q == SkipSpace(s, p)
        r == IF q <= Len(s) /\ Char(s, q) = "$" THEN SkipSpace(s, q + 1) ELSE q
    IN  NumberMatch(s, from, r)

\* (?::|\s+of)? after p, then \s*\$?\s*number.  \s+of needs white space of its own,
\* which the \s* before the group gives back.
ColonOrSpaceOf(s, low, from, p) ==
    LET w == SkipSpace(s, p)
    IN  IF w <= Len(s) /\ Char(s, w) = ":" THEN DollarNumber(s, from, w + 1)
        ELSE IF w > p /\ StartsWithAt(low, w, "of") THEN DollarNumber(s, from, w + 2)
        ELSE DollarNumber(s, from, w)

\* label\s*(?::|\s+of)?\s*\$?\s*(number), case-insensitive
LabelMatch(s, low, i, label) ==
    IF StartsWithAt(low, i, label) THEN ColonOrSpaceOf(s, low, i, i + Len(label))
    ELSE NoMatch

\* /\$\s*(number)/g
MatchDollar(s, low, i) ==
    IF i <= Len(s) /\ Char(s, i) = "$" THEN NumberMatch(s, i, SkipSpace(s, i + 1))
    ELSE NoMatch

\* /(number)\s*(?:USD|dollars|dollar)/gi: the number backtracks until the currency
\* word follows it
MatchSuffix(s, low, i) ==
    LET ends == NumberEnds(s, i)
        good == {j \in 1..Len(ends) : CurrencyWordEnd(low, SkipSpace(s, ends[j])) # 0}
    IN  IF good = {} THEN NoMatch
        ELSE [ok |-> TRUE, from |-> i,
              to |-> CurrencyWordEnd(low, SkipSpace(s, ends[Min(good)])),
              numFrom |-> i, numTo |-> ends[Min(good)]]

\* /total\s*(?:amount|payment|charge|price)?(?:\s*:|\s+of)?\s*\$?\s*(number)/gi
MatchTotal(s, low, i) ==
    IF ~StartsWithAt(low, i, "total") THEN NoMatch
    ELSE LET p == i + 5
             w == SkipSpace(s, p)
             q == IF StartsWithAt(low, w, "amount") THEN w + 6
                  ELSE IF StartsWithAt(low, w, "payment") THEN w + 7
                  ELSE IF StartsWithAt(low, w, "charge") THEN w + 6
                  ELSE IF StartsWithAt(low, w, "price") THEN w + 5
                  ELSE p
         IN  ColonOrSpaceOf(s, low, i, q)

\* /payment\s*(?:of|:)?\s*\$?\s*(number)/gi
MatchPayment(s, low, i) ==
    IF ~StartsWithAt(low, i, "payment") THEN NoMatch
    ELSE LET w == SkipSpace(s, i + 7)
         IN  IF StartsWithAt(low, w, "of") THEN DollarNumber(s, i, w + 2)
             ELSE IF w <= Len(s) /\ Char(s, w) = ":" THEN DollarNumber(s, i, w + 1)
             ELSE DollarNumber(s, i, w)

\* /(?:USD|dollars|dollar)\s*(number)/gi
MatchPrefix(s, low, i) ==
    IF CurrencyWordEnd(low, i) = 0 THEN NoMatch
    ELSE NumberMatch(s, i, SkipSpace(s, CurrencyWordEnd(low, i)))

NumRegexes == 11

\* amountRegexes[r] tried at position i of s (low is s lower-cased)
RegexMatchAt(r, s, low, i) ==
    CASE r = 1  -> MatchDollar(s, low, i)
      [] r = 2  -> MatchSuffix(s, low, i)
      [] r = 3  -> MatchTotal(s, low, i)
      [] r = 4  -> LabelMatch(s, low, i, "amount")
      [] r = 5  -> MatchPayment(s, low, i)
      [] r = 6  -> LabelMatch(s, low, i, "charged")
      [] r = 7  -> LabelMatch(s, low, i, "price")
      [] r = 8  -> LabelMatch(s, low, i, "cost")
      [] r = 9  -> LabelMatch(s, low, i, "bill")
      [] r = 10 -> LabelMatch(s, low, i, "invoice")
      [] r = 11 -> MatchPrefix(s, low, i)

\* the digits of s[from..to-1] read as a decimal integer, commas dropped
RECURSIVE DigitsValue(_, _, _, _)
DigitsValue(s, from, to, acc) ==
    IF from >= to THEN acc
    ELSE IF IsDigit(Char(s, from))
         THEN DigitsValue(s, from + 1, to, 10 * acc + DigitValue(Char(s, from)))
    ELSE DigitsValue(s, from + 1, to, acc)

\* parseFloat(numericPart) with the commas left in: the digits before the first
\* comma
ParseAmountKeepCommas(s, from, to) ==
    IF \E i \in from..(to - 1) : Char(s, i) = ","
    THEN 100 * DigitsValue(s, from, from + LeadDigits(s, from), 0)
    ELSE IF to - from >= 3 /\ Char(s, to - 3) = "."
         THEN DigitsValue(s, from, to, 0)
    ELSE 100 * DigitsValue(s, from, to, 0)

\* parseFloat(numericPart.replace(/,/g, "")) in cents; the group holds digits,
\* commas and at most one ".dd"
ParseAmount(s, from, to) ==
    IF to - from >= 3 /\ Char(s, to - 3) = "."
    THEN DigitsValue(s, from, to, 0)
    ELSE 100 * DigitsValue(s, from, to, 0)

\* the body of the while loop: the match is recorded only when amount > 0
MatchRecord(s, m) ==
    LET amount == ParseAmount(s, m.numFrom, m.numTo)
    IN  IF amount > 0
        THEN << [amount |-> amount, text |-> SubSeq(s, m.from, m.to - 1),
                 index |-> m.from - 1] >>
        ELSE <<>>

\* the characters, lower-cased, a match of amountRegexes[r] can start with
RegexFirstChars ==
    << {"$"}, {"0", "1", "2", "3", "4", "5", "6", "7", "8", "9"}, {"t"}, {"a"}, {"p"},
       {"c"}, {"p"}, {"c"}, {"b"}, {"i"}, {"u", "d"} >>

\* the positions of s where a match of amountRegexes[r] can start
RegexStarts(r, s, low) == {i \in 1..Len(s) : Char(low, i) \in RegexFirstChars[r]}

\* while ((match = regex.exec(text)) !== null): the leftmost match at or after
\* lastIndex = i - 1, then on from its end; starts holds the positions a match
\* can begin at
RECURSIVE ExecFrom(_, _, _, _, _)
ExecFrom(r, s, low, i, starts) ==
    LET later == {j \in starts : j >= i}
    IN  IF later = {} THEN <<>>
        ELSE LET m == RegexMatchAt(r, s, low, Min(later))
             IN  IF m.ok THEN MatchRecord(s, m) \o ExecFrom(r, s, low, m.to, starts)
                 ELSE ExecFrom(r, s, low, Min(later) + 1, starts)

\* the matches of the later regexes put before those of the earlier ones
RECURSIVE AmountsFromRegexReversed(_, _, _)
AmountsFromRegexReversed(r, s, low) ==
    IF r > NumRegexes THEN <<>>
    ELSE AmountsFromRegexReversed(r + 1, s, low)
         \o ExecFrom(r, s, low, 1, RegexStarts(r, s, low))

RECURSIVE AmountsFromRegex(_, _, _)
AmountsFromRegex(r, s, low) ==
    IF r > NumRegexes THEN <<>>
    ELSE ExecFrom(r, s, low, 1, RegexStarts(r, s, low))
         \o AmountsFromRegex(r + 1, s, low)

extractAmounts(s) == AmountsFromRegex(1, s, ToLowerCase(s))

----------------------------------------------------------------------------
(* createTitle: getEmailExpense.ts *)

\* the character class [A-Za-z0-9\s&]
IsNameChar(c) == IsUpper(c) \/ IsLower(c) \/ IsDigit(c) \/ IsSpace(c) \/ c = "&"

NameCharAt(s, i) == i >= 1 /\ i <= Len(s) /\ IsNameChar(Char(s, i))

\* the position after the run of [A-Za-z0-9\s&] that starts at i
RECURSIVE NameRunEnd(_, _)
NameRunEnd(s, i) == IF NameCharAt(s, i) THEN NameRunEnd(s, i + 1) ELSE i

\* the position after the first of the words that stands at i, 0 when none does
RECURSIVE WordEndFrom(_, _, _, _)
WordEndFrom(low, i, words, k) ==
    IF k > Len(words) THEN 0
    ELSE IF StartsWithAt(low, i, words[k]) THEN i + Len(words[k])
    ELSE WordEndFrom(low, i, words, k + 1)

WordEnd(low, i, words) == WordEndFrom(low, i, words, 1)

NoCapture == [ok |-> FALSE, from |-> 0, to |-> 0]

\* text.replace(amountText, ""): the first occurrence of a string pattern is removed
RemoveFirst(s, w) ==
    LET at == IndexOfFrom(s, w, 1)
    IN  IF w = "" \/ at = 0 THEN s
        ELSE SubSeq(s, 1, at - 1) \o SubSeq(s, at + Len(w), Len(s))

\* \s+([A-Za-z0-9\s&]+) at the end of a pattern, the white space starting at q:
\* group 1 is the name run after the white space, or the last white space itself
\* when no name character follows two or more of them
SpaceThenName(s, q) ==
    LET w == SkipSpace(s, q)
    IN  IF w = q THEN NoCapture
        ELSE IF NameCharAt(s, w) THEN [ok |-> TRUE, from |-> w, to |-> NameRunEnd(s, w)]
        ELSE IF w - q >= 2 THEN [ok |-> TRUE, from |-> w - 1, to |-> w]
        ELSE NoCapture

\* /(?:purchase|payment|transaction|charge)\s+(?:at|to|from)\s+([A-Za-z0-9\s&]+)/i at i
MerchantAfterVerbAt(s, low, i) ==
    LET v == WordEnd(low, i, <<"purchase", "payment", "transaction", "charge">>)
        w == SkipSpace(s, v)
        p == WordEnd(low, w, <<"at", "to", "from">>)
    IN  IF v = 0 \/ w = v \/ p = 0 THEN NoCapture ELSE SpaceThenName(s, p)

\* ([A-Za-z0-9\s&]+)\s+(?:words) with group 1 starting at a: the greedy group ends
\* at the last white space of the run that one of the words follows
NameBeforeWord(s, low, a, words) ==
    LET r == NameRunEnd(s, a)
        at == {c \in (a + 2)..r : IsSpace(Char(s, c - 1)) /\ WordEnd(low, c, words) # 0}
    IN  IF at = {} THEN NoCapture ELSE [ok |-> TRUE, from |-> a, to |-> Max(at) - 1]

\* the first start a, from w down to lo, at which NameBeforeWord matches
RECURSIVE NameBeforeWordDown(_, _, _, _, _)
NameBeforeWordDown(s, low, a, lo, words) ==
    IF a < lo THEN NoCapture
    ELSE LET m == NameBeforeWord(s, low, a, words)
         IN  IF m.ok THEN m ELSE NameBeforeWordDown(s, low, a - 1, lo, words)

\* /(?:from|at|to)\s+([A-Za-z0-9\s&]+)\s+(?:on|for)/i at i
MerchantBeforeOnAt(s, low, i) ==
    LET p == WordEnd(low, i, <<"from", "at", "to">>)
        w == SkipSpace(s, p)
    IN  IF p = 0 \/ w = p THEN NoCapture
        ELSE NameBeforeWordDown(s, low, w, p + 1, <<"on", "for">>)

\* /([A-Za-z0-9\s&]+)\s+(?:store|restaurant|shop|market)/i at i
MerchantBeforeShopAt(s, low, i) ==
    IF ~NameCharAt(s, i) THEN NoCapture
    ELSE NameBeforeWord(s, low, i, <<"store", "restaurant", "shop", "market">>)

MerchantAt(k, s, low, i) ==
    CASE k = 1 -> MerchantAfterVerbAt(s, low, i)
      [] k = 2 -> MerchantBeforeOnAt(s, low, i)
      [] k = 3 -> MerchantBeforeShopAt(s, low, i)

\* the positions of s where a match of merchantPatterns[k] can start: the first
\* letter of one of its leading words, or for the third pattern the start of a
\* run of name characters (a match that starts inside a run also starts at its
\* beginning)
MerchantStarts(k, s, low) ==
    CASE k = 1 -> {i \in 1..Len(s) : Char(low, i) \in {"p", "t", "c"}}
      [] k = 2 -> {i \in 1..Len(s) : Char(low, i) \in {"f", "a", "t"}}
      [] k = 3 -> {i \in 1..Len(s) : NameCharAt(s, i) /\ ~NameCharAt(s, i - 1)}

\* String.prototype.match without the g flag: the leftmost match
RECURSIVE MerchantMatchIn(_, _, _, _)
MerchantMatchIn(k, s, low, starts) ==
    IF starts = {} THEN NoCapture
    ELSE LET m == MerchantAt(k, s, low, Min(starts))
         IN  IF m.ok THEN m ELSE MerchantMatchIn(k, s, low, starts \ {Min(starts)})

MerchantMatch(k, s, low) == MerchantMatchIn(k, s, low, MerchantStarts(k, s, low))

\* /([A-Z][A-Za-z0-9\s&]{2,20})/g, first match: an upper-case letter and the next
\* 2 to 20 name characters
RECURSIVE BusinessNameFrom(_, _)
BusinessNameFrom(s, i) ==
    IF i > Len(s) THEN NoCapture
    ELSE IF IsUpper(Char(s, i)) /\ NameRunEnd(s, i + 1) - (i + 1) >= 2
         THEN [ok |-> TRUE, from |-> i,
               to |-> IF NameRunEnd(s, i + 1) > i + 21 THEN i + 21 ELSE NameRunEnd(s, i + 1)]
    ELSE BusinessNameFrom(s, i + 1)

NumMerchantPatterns == 3

RECURSIVE TitleFromPattern(_, _, _)
TitleFromPattern(k, s, low) ==
    IF k > NumMerchantPatterns
    THEN LET b == BusinessNameFrom(s, 1)
         IN  IF b.ok THEN Trim(SubSeq(s, b.from, b.to - 1)) ELSE "Expense"
    ELSE LET m == MerchantMatch(k, s, low)
         IN  IF m.ok THEN Trim(SubSeq(s, m.from, m.to - 1))
             ELSE TitleFromPattern(k + 1, s, low)

createTitle(t, amountText) ==
    LET textWithoutAmount == RemoveFirst(t, amountText)
    IN  TitleFromPattern(1, textWithoutAmount, ToLowerCase(textWithoutAmount))

----------------------------------------------------------------------------
(* handleGetEmailExpense: getEmailExpense.ts *)

RECURSIVE SumAmounts(_, _)
SumAmounts(items, i) ==
    IF i > Len(items) THEN 0 ELSE items[i].amount + SumAmounts(items, i + 1)

\* sortedAmounts[0].amount: the largest amount of a non-empty list
LargestAmount(matches) == Max({matches[i].amount : i \in 1..Len(matches)})

\* emailText.substring(start, end).toLowerCase() around a match
SurroundingText(s, match) ==
    LET start == IF match.index - 50 > 0 THEN match.index - 50 ELSE 0
        stop  == IF match.index + Len(match.text) + 50 < Len(s)
                 THEN match.index + Len(match.text) + 50 ELSE Len(s)
    IN  ToLowerCase(SubSeq(s, start + 1, stop))

ItemOf(s, match) ==
    LET surroundingText == SurroundingText(s, match)
    IN  [amount |-> match.amount,
         title  |-> createTitle(surroundingText, match.text),
         head   |-> determineCategory(surroundingText)]

\* the loop without the skip of the total
RECURSIVE ItemsFromNoSkip(_, _, _, _)
ItemsFromNoSkip(s, matches, totalAmount, i) ==
    IF i > Len(matches) THEN <<>>
    ELSE <<ItemOf(s, matches[i])>> \o ItemsFromNoSkip(s, matches, totalAmount, i + 1)

\* the loop skipping the total from two matches on
RECURSIVE ItemsFromSkipAtTwo(_, _, _, _)
ItemsFromSkipAtTwo(s, matches, totalAmount, i) ==
    IF i > Len(matches) THEN <<>>
    ELSE IF Len(matches) > 1 /\ matches[i].amount = totalAmount
         THEN ItemsFromSkipAtTwo(s, matches, totalAmount, i + 1)
    ELSE <<ItemOf(s, matches[i])>> \o ItemsFromSkipAtTwo(s, matches, totalAmount, i + 1)

\* the for loop over amountMatches, from position i on
RECURSIVE ItemsFrom(_, _, _, _)
ItemsFrom(s, matches, totalAmount, i) ==
    IF i > Len(matches) THEN <<>>
    ELSE IF Len(matches) > 2 /\ matches[i].amount = totalAmount
         THEN ItemsFrom(s, matches, totalAmount, i + 1)
    ELSE <<ItemOf(s, matches[i])>> \o ItemsFrom(s, matches, totalAmount, i + 1)

\* lines 43-72 without the fallback of lines 74-81
BuildItemsNoFallback(s, matches) ==
    IF Len(matches) > 1 THEN ItemsFrom(s, matches, LargestAmount(matches), 1) ELSE <<>>

\* lines 43-81: the line items built from the matches
BuildItems(s, matches) ==
    LET totalAmount == LargestAmount(matches)
        listed == IF Len(matches) > 1 THEN ItemsFrom(s, matches, totalAmount, 1) ELSE <<>>
    IN  IF Len(listed) = 0
        THEN <<[amount |-> totalAmount, title |-> "Expense from email", head |-> "unknown"]>>
        ELSE listed

Abs(x) == IF x < 0 THEN -x ELSE x

\* Math.abs(calculatedTotal - totalAmount) < 0.01 on doubles: certain at a
\* difference of 0, impossible from two cents on, and at exactly one cent decided
\* by the rounding of the operands (0.03 - 0.02 < 0.01 but 1.13 - 1.12 > 0.01)
IsClose(calculatedTotal, totalAmount, close) ==
    \/ calculatedTotal = totalAmount
    \/ Abs(calculatedTotal - totalAmount) = 1 /\ close

\* the total always calculated from the items
FinalTotalOfItems(items, totalAmount, close) == SumAmounts(items, 1)

\* lines 83-89
FinalTotal(items, totalAmount, close) ==
    IF IsClose(SumAmounts(items, 1), totalAmount, close) \/ Len(items) > 1
    THEN SumAmounts(items, 1)
    ELSE totalAmount

\* the try block, lines 31-94
EmailTryBlock(s, matches, close) ==
    IF Len(matches) = 0 THEN [status |-> "threw", error |-> "No expense amounts found in the email"]
    ELSE LET items == BuildItems(s, matches)
         IN  [status |-> "returned",
              total  |-> FinalTotal(items, LargestAmount(matches), close),
              items  |-> items]

\* the catch block, lines 95-98: whatever was thrown is replaced
EmailCatchBlock(outcome) ==
    IF outcome.status = "threw"
    THEN [status |-> "threw", error |-> "Failed to process the email text"]
    ELSE outcome

handleGetEmailExpense(s, matches, close) == EmailCatchBlock(EmailTryBlock(s, matches, close))

----------------------------------------------------------------------------
(* JavaScript values of the structured path: part_000 *)

JNum(n)    == [type |-> "number", num |-> n]        \* a finite number, in cents
JNaN       == [type |-> "NaN"]
JInfinity  == [type |-> "Infinity"]
JStr(str)  == [type |-> "string", str |-> str]
JNull      == [type |-> "null"]
JUndefined == [type |-> "undefined"]
JArr(elems) == [type |-> "array", elems |-> elems]
JObj(fields) == [type |-> "object", fields |-> fields]

\* v.name: undefined for a name the value does not have (null and undefined,
\* whose property reads throw, are guarded where Get is used)
Get(v, name) ==
    IF v.type = "object" /\ name \in DOMAIN v.fields THEN v.fields[name] ELSE JUndefined

\* !v
Falsy(v) ==
    \/ v.type \in {"undefined", "null", "NaN"}
    \/ v.type = "number" /\ v.num = 0
    \/ v.type = "string" /\ v.str = ""

AllDigits(str, from, to) == \A i \in from..to : IsDigit(Char(str, i))

\* the numeric value of an unsigned decimal literal "ddd", "ddd.", "ddd.dd" or
\* ".dd" (at most two decimals in the modelled texts), NaN for anything else
UnsignedNumber(str) ==
    LET n == Len(str)
        dots == {i \in 1..n : Char(str, i) = "."}
    IN  IF n = 0 THEN JNaN
        ELSE IF dots = {}
             THEN IF AllDigits(str, 1, n) THEN JNum(100 * DigitsValue(str, 1, n + 1, 0))
                  ELSE JNaN
        ELSE LET d == Min(dots)
             IN  IF Cardinality(dots) > 1 \/ n = 1 \/ n - d > 2
                    \/ ~AllDigits(str, 1, d - 1) \/ ~AllDigits(str, d + 1, n)
                 THEN JNaN
                 ELSE JNum(100 * DigitsValue(str, 1, d, 0)
                           + (IF n - d = 1 THEN 10 ELSE 1) * DigitsValue(str, d + 1, n + 1, 0))

\* Number(string): white space is trimmed, "" is 0, a decimal literal with an
\* optional sign is its value and anything else is NaN
StringToNumber(str) ==
    LET t == Trim(str)
    IN  IF t = "" THEN JNum(0)
        ELSE IF Char(t, 1) = "-"
             THEN LET u == UnsignedNumber(SubSeq(t, 2, Len(t)))
                  IN  IF u.type = "number" THEN JNum(-u.num) ELSE u
        ELSE IF Char(t, 1) = "+" THEN UnsignedNumber(SubSeq(t, 2, Len(t)))
        ELSE UnsignedNumber(t)

\* Number(v) of a primitive value
PrimitiveToNumber(v) ==
    CASE v.type \in {"number", "NaN", "Infinity"} -> v
      [] v.type = "string" -> StringToNumber(v.str)
      [] v.type = "null" -> JNum(0)
      [] v.type = "undefined" -> JNaN

\* Number(v): an object is NaN, an array goes through its string, which for no
\* element is "" and for one primitive element is that element's string
ToNumber(v) ==
    CASE v.type = "object" -> JNaN
      [] v.type = "array" ->
            IF Len(v.elems) = 0 THEN JNum(0)
            ELSE IF Len(v.elems) > 1 \/ v.elems[1].type \in {"object", "array"} THEN JNaN
            ELSE IF v.elems[1].type \in {"null", "undefined"} THEN JNum(0)
            ELSE PrimitiveToNumber(v.elems[1])
      [] OTHER -> PrimitiveToNumber(v)

----------------------------------------------------------------------------
(* extractItemsFromMarkdown: part_000 *)

\* the bullet character U+2022 of the source, written in ASCII
Bullet == "#"

TotalLabel    == "**Total Bill Amount:** "
AmountLabel   == Bullet \o " **Amount:** "
TitleLabel    == Bullet \o " **Title:** "
CategoryLabel == Bullet \o " **Category:** "

\* the position after the run of [\d.] that starts at i
RECURSIVE DigitDotRunEnd(_, _)
DigitDotRunEnd(s, i) ==
    IF i <= Len(s) /\ (IsDigit(Char(s, i)) \/ Char(s, i) = ".")
    THEN DigitDotRunEnd(s, i + 1) ELSE i

\* the position after the run of [^\n] that starts at i
RECURSIVE LineEnd(_, _)
LineEnd(s, i) == IF i <= Len(s) /\ Char(s, i) # "\n" THEN LineEnd(s, i + 1) ELSE i

\* text.match(/\*\*Total Bill Amount:\*\* ([\d.]+)/): the leftmost label that a
\* digit or dot follows; group 1, or "" for no match
TotalMatch(s) ==
    LET at == {i \in 1..Len(s) :
                  /\ StartsWithAt(s, i, TotalLabel)
                  /\ DigitDotRunEnd(s, i + Len(TotalLabel)) > i + Len(TotalLabel)}
    IN  IF at = {} THEN ""
        ELSE SubSeq(s, Min(at) + Len(TotalLabel),
                    DigitDotRunEnd(s, Min(at) + Len(TotalLabel)) - 1)

NoItem == [ok |-> FALSE, to |-> 0]

\* itemRegex at position i:
\* <bullet> **Amount:** ([\d.]+)\n\s+<bullet> **Title:** ([^\n]+)\n\s+<bullet> **Category:** ([^\n]+)
ItemMatchAt(s, i) ==
    LET a0 == i + Len(AmountLabel)
        a1 == DigitDotRunEnd(s, a0)
        t0 == SkipSpace(s, a1 + 1) + Len(TitleLabel)
        t1 == LineEnd(s, t0)
        c0 == SkipSpace(s, t1 + 1) + Len(CategoryLabel)
        c1 == LineEnd(s, c0)
    IN  IF /\ StartsWithAt(s, i, AmountLabel)
           /\ a1 > a0
           /\ a1 <= Len(s) /\ Char(s, a1) = "\n"
           /\ SkipSpace(s, a1 + 1) > a1 + 1
           /\ StartsWithAt(s, SkipSpace(s, a1 + 1), TitleLabel)
           /\ t1 > t0
           /\ t1 <= Len(s) /\ Char(s, t1) = "\n"
           /\ SkipSpace(s, t1 + 1) > t1 + 1
           /\ StartsWithAt(s, SkipSpace(s, t1 + 1), CategoryLabel)
           /\ c1 > c0
        THEN [ok |-> TRUE, to |-> c1,
              item |-> JObj([amount |-> UnsignedNumber(SubSeq(s, a0, a1 - 1)),
                             title  |-> JStr(Trim(SubSeq(s, t0, t1 - 1))),
                             head   |-> JStr(Trim(ToLowerCase(SubSeq(s, c0, c1 - 1))))])]
        ELSE NoItem

\* while ((match = itemRegex.exec(text)) !== null), from position i on
RECURSIVE MarkdownItemsFrom(_, _)
MarkdownItemsFrom(s, i) ==
    LET later == {j \in i..Len(s) : StartsWithAt(s, j, AmountLabel)}
    IN  IF later = {} THEN <<>>
        ELSE LET m == ItemMatchAt(s, Min(later))
             IN  IF m.ok THEN <<m.item>> \o MarkdownItemsFrom(s, m.to)
                 ELSE MarkdownItemsFrom(s, Min(later) + 1)

\* the markdown form without line 34: a total without items is returned
extractItemsFromMarkdownPartial(s) ==
    IF TotalMatch(s) = "" THEN JNull
    ELSE JObj([total |-> UnsignedNumber(TotalMatch(s)),
               items |-> JArr(MarkdownItemsFrom(s, 1))])

extractItemsFromMarkdown(s) ==
    IF TotalMatch(s) = "" THEN JNull
    ELSE LET items == MarkdownItemsFrom(s, 1)
         IN  IF Len(items) = 0 THEN JNull
             ELSE JObj([total |-> UnsignedNumber(TotalMatch(s)), items |-> JArr(items)])

----------------------------------------------------------------------------
(* extractJSON: part_000 *)

\* The JSON documents that occur in the responses, with the value JSON.parse
\* gives.  Every other string the responses hand to JSON.parse (two documents in
\* a row, a document next to prose or inside braces, prose alone, "") is no JSON.
TaxiDoc ==
    "{\"total\":20,\"items\":[{\"amount\":20,\"title\":\"Taxi\",\"head\":\"Travel\"}]}"

TaxiItem(head) ==
    JObj([amount |-> JNum(2000), title |-> JStr("Taxi"), head |-> JStr(head)])

JsonDocs ==
    { [text  |-> TaxiDoc,
       value |-> JObj([total |-> JNum(2000), items |-> JArr(<<TaxiItem("Travel")>>)])],
      [text  |-> "{\"total\":0,\"items\":[{\"amount\":20,\"title\":\"Taxi\",\"head\":\"travel\"}]}",
       value |-> JObj([total |-> JNum(0), items |-> JArr(<<TaxiItem("travel")>>)])],
      [text  |-> "{\"total\":-5,\"items\":[{\"amount\":20,\"title\":\"Taxi\",\"head\":\"travel\"}]}",
       value |-> JObj([total |-> JNum(-500), items |-> JArr(<<TaxiItem("travel")>>)])],
      [text  |-> "{\"total\":\"abc\",\"items\":[{\"amount\":20,\"title\":\"Taxi\",\"head\":\"travel\"}]}",
       value |-> JObj([total |-> JStr("abc"), items |-> JArr(<<TaxiItem("travel")>>)])],
      [text  |-> "{\"total\":\"12.50\",\"items\":[{\"amount\":20,\"title\":\"Taxi\",\"head\":\"travel\"}]}",
       value |-> JObj([total |-> JStr("12.50"), items |-> JArr(<<TaxiItem("travel")>>)])],
      [text  |-> "{\"total\":1e999,\"items\":[{\"amount\":20,\"title\":\"Taxi\",\"head\":\"travel\"}]}",
       value |-> JObj([total |-> JInfinity, items |-> JArr(<<TaxiItem("travel")>>)])],
      [text  |-> "{\"items\":[{\"amount\":20,\"title\":\"Taxi\",\"head\":\"travel\"}]}",
       value |-> JObj([items |-> JArr(<<TaxiItem("travel")>>)])],
      [text  |-> "{\"total\":20,\"items\":[]}",
       value |-> JObj([total |-> JNum(2000), items |-> JArr(<<>>)])],
      [text  |-> "{\"total\":20}",
       value |-> JObj([total |-> JNum(2000)])],
      [text  |-> "{\"total\":20,\"items\":\"none\"}",
       value |-> JObj([total |-> JNum(2000), items |-> JStr("none")])],
      [text  |-> "{\"total\":20,\"items\":[{\"amount\":20,\"title\":\"Taxi\"}]}",
       value |-> JObj([total |-> JNum(2000),
                       items |-> JArr(<<JObj([amount |-> JNum(2000), title |-> JStr("Taxi")])>>)])],
      [text  |-> "{\"total\":20,\"items\":[{\"amount\":\"7.25\",\"title\":\"Milk\",\"head\":\"groceries\"}]}",
       value |-> JObj([total |-> JNum(2000),
                       items |-> JArr(<<JObj([amount |-> JStr("7.25"), title |-> JStr("Milk"),
                                              head |-> JStr("groceries")])>>)])],
      [text  |-> "[{\"total\":20},{\"total\":20}]",
       value |-> JArr(<<JObj([total |-> JNum(2000)]), JObj([total |-> JNum(2000)])>>)],
      [text  |-> "{\n}", value |-> JObj(<<>>)],
      [text  |-> "null", value |-> JNull] }

JsonTexts == {d.text : d \in JsonDocs}

\* JSON.parse(str): the value, or a SyntaxError
JsonParse(str) ==
    IF str \in JsonTexts
    THEN [ok |-> TRUE, value |-> (CHOOSE d \in JsonDocs : d.text = str).value]
    ELSE [ok |-> FALSE]

\* the backquote of the source, which a module string cannot hold, written "~"
Backquote == "~"

Fence == Backquote \o Backquote \o Backquote

\* text.match(/<fence>(?:json)?\n?([\s\S]*?)\n?<fence>/): group 1 trimmed and parsed
CodeBlockForm(s) ==
    LET open == IndexOfFrom(s, Fence, 1)
        body == IF StartsWithAt(s, open + 3, "json") THEN open + 7 ELSE open + 3
        shut == IndexOfFrom(s, Fence, body)
    IN  IF open = 0 \/ shut = 0 THEN [found |-> FALSE]
        ELSE [found |-> TRUE, parsed |-> JsonParse(Trim(SubSeq(s, body, shut - 1)))]

\* text.match(/\{[\s\S]*\}/): from the first "{" to the last "}", trimmed and parsed
BracesForm(s) ==
    LET open == IndexOfFrom(s, "{", 1)
        shut == {i \in (open + 1)..Len(s) : Char(s, i) = "}"}
    IN  IF open = 0 \/ shut = {} THEN [found |-> FALSE]
        ELSE [found |-> TRUE, parsed |-> JsonParse(Trim(SubSeq(s, open, Max(shut))))]

\* JSON.parse(text.trim())
WholeForm(s) == [found |-> TRUE, parsed |-> JsonParse(Trim(s))]

\* lines 45-48: the markdown form when the text holds "**"
MarkdownForm(s) ==
    IF Includes(s, "**") THEN extractItemsFromMarkdown(s) ELSE JNull

Returned(v) == [status |-> "returned", value |-> v]
Threw(message) == [status |-> "threw", error |-> message]

\* lines 70-76: JSON.parse of the whole text; its error is caught and null returned
TryWholeText(s) ==
    IF WholeForm(s).parsed.ok THEN Returned(WholeForm(s).parsed.value)
    ELSE Returned(JNull)

\* lines 60-68: the braces form; its parse error is caught and the next form tried
TryBraces(s) ==
    LET b == BracesForm(s)
    IN  IF b.found /\ b.parsed.ok THEN Returned(b.parsed.value) ELSE TryWholeText(s)

\* the code block form without the try around its JSON.parse
TryCodeBlockUncaught(s) ==
    LET c == CodeBlockForm(s)
    IN  IF ~c.found THEN TryBraces(s)
        ELSE IF c.parsed.ok THEN Returned(c.parsed.value)
        ELSE Threw("SyntaxError")

\* lines 50-58: the code block form; its parse error is caught and the next form
\* tried
TryCodeBlock(s) ==
    LET c == CodeBlockForm(s)
    IN  IF c.found /\ c.parsed.ok THEN Returned(c.parsed.value) ELSE TryBraces(s)

\* the code block form tried before the markdown form
extractJSONCodeBlockFirst(s) ==
    LET c == CodeBlockForm(s)
        markdownData == MarkdownForm(s)
    IN  IF c.found /\ c.parsed.ok THEN Returned(c.parsed.value)
        ELSE IF markdownData # JNull THEN Returned(markdownData)
        ELSE TryBraces(s)

extractJSON(s) ==
    LET markdownData == MarkdownForm(s)
    IN  IF markdownData # JNull THEN Returned(markdownData) ELSE TryCodeBlock(s)

----------------------------------------------------------------------------
(* handleGetInvoiceData: part_000 *)

\* item.head.toLowerCase() throws a TypeError unless item.head is a string
HeadIsString(item) ==
    /\ item.type \notin {"null", "undefined"}
    /\ Get(item, "head").type = "string"

\* the arrow function of items.map, for an item whose head is a string
NormalizeItem(item) ==
    LET head == ToLowerCase(Get(item, "head").str)
    IN  JObj([k \in DOMAIN item.fields \cup {"amount", "head"} |->
                 IF k = "amount" THEN ToNumber(Get(item, "amount"))
                 ELSE IF k = "head" THEN JStr(IF head \in Heads THEN head ELSE "unknown")
                 ELSE item.fields[k]])

\* line 138: the guard before the throw
MissingRequiredFields(data) ==
    \/ Falsy(data)
    \/ Falsy(Get(data, "total"))
    \/ Get(data, "items").type # "array"
    \/ Len(Get(data, "items").elems) = 0

\* lines 136-152, given what extractJSON gave
InvoiceTryBlock(extracted) ==
    IF extracted.status = "threw" THEN extracted
    ELSE LET data == extracted.value
         IN  IF MissingRequiredFields(data) THEN Threw("Failed to extract required fields from the bill")
             ELSE LET items == Get(data, "items").elems
                  IN  IF \E i \in 1..Len(items) : ~HeadIsString(items[i])
                      THEN Threw("TypeError")
                      ELSE Returned(JObj([data.fields EXCEPT
                              !.total = ToNumber(data.fields.total),
                              !.items = JArr([i \in 1..Len(items) |-> NormalizeItem(items[i])])]))

\* lines 153-156: whatever was thrown is replaced
InvoiceCatchBlock(outcome) ==
    IF outcome.status = "threw" THEN Threw("Failed to process the bill image") ELSE outcome

handleGetInvoiceData(extracted) == InvoiceCatchBlock(InvoiceTryBlock(extracted))

----------------------------------------------------------------------------
(* Inputs *)

MaxEmailParts == 2

\* sentences an e-mail body is made of
EmailParts ==
    { "Your payment of $45.00 was successful",
      "hello world",
      "  ",
      "Lunch at Cafe Rio for $12.00",
      "Total: $45.00",
      "20 USD",
      "$1,234.56",
      "$1,234,567.89",
      "$44.99",
      "Coffee $4.50 and bagel $3.25",
      "$1234.56",
      "-$5.00",
      "$0.00" }

\* the texts of exactly n parts, sep between them
RECURSIVE JoinsOf(_, _, _)
JoinsOf(parts, sep, n) ==
    IF n = 0 THEN {""}
    ELSE IF n = 1 THEN parts
    ELSE {a \o sep \o b : a \in JoinsOf(parts, sep, n - 1), b \in parts}

RECURSIVE JoinsUpTo(_, _, _)
JoinsUpTo(parts, sep, n) ==
    IF n = 0 THEN JoinsOf(parts, sep, 0)
    ELSE JoinsOf(parts, sep, n) \cup JoinsUpTo(parts, sep, n - 1)

EmailTexts == JoinsUpTo(EmailParts, " ", MaxEmailParts)

MaxContentParts == 2

MarkdownTotal == TotalLabel \o "12.50"
MarkdownLunch ==
    AmountLabel \o "12.50\n  " \o TitleLabel \o "Lunch \n  " \o CategoryLabel \o "Food "
MarkdownMilk ==
    AmountLabel \o "7.25\n  " \o TitleLabel \o "Milk\n  " \o CategoryLabel \o "Groceries"

MarkdownBill == MarkdownTotal \o "\n" \o MarkdownLunch \o "\n" \o MarkdownMilk

FencedTaxi == Fence \o "json\n" \o TaxiDoc \o "\n" \o Fence
FencedProse == Fence \o "\nthe bill could not be read\n" \o Fence

\* pieces a response of the vision model is made of
ContentParts ==
    { TaxiDoc,
      "[{\"total\":20},{\"total\":20}]",
      MarkdownTotal,
      MarkdownLunch,
      MarkdownBill,
      "**Note:** the bill is blurred",
      "no structure here at all",
      Fence,
      Fence \o "json",
      FencedTaxi,
      FencedProse,
      "{",
      "}" }

\* a response: one of the JSON documents alone, or pieces on lines of their own
Contents == JsonTexts \cup JoinsUpTo(ContentParts, "\n", MaxContentParts)

MaxContextWords == 2

\* every keyword of the table
AllKeywords ==
    UNION { {categoryKeywords[c].keywords[k] : k \in 1..Len(categoryKeywords[c].keywords)} :
            c \in 1..Len(categoryKeywords) }

\* words a classified context is made of
ContextWords ==
    {"hello", "Food", "uber", "lunch", "present", "gym", "stock", "a taxi to the store"}

CategoryTexts == AllKeywords \cup JoinsUpTo(ContextWords, " ", MaxContextWords)

----------------------------------------------------------------------------
(* Invocations *)

InitEmail ==
    /\ fn = "handleGetEmailExpense"
    /\ pc = "call"
    /\ emailText \in EmailTexts
    /\ amountMatches = <<>>
    /\ expenseData = [status |-> None]
    /\ content = None /\ parsedData = None /\ invoiceData = [status |-> None]
    /\ text = None /\ category = None
    /\ run = <<>> /\ processedEmails = {} /\ expenses = <<>> /\ emailBody = <<>> /\ failures = 0

\* one invocation of handleGetEmailExpense(emailText)
HandleGetEmailExpense ==
    /\ fn = "handleGetEmailExpense"
    /\ pc = "call"
    /\ LET matches == extractAmounts(emailText)
       IN  /\ amountMatches' = matches
           /\ \E close \in BOOLEAN :
                 expenseData' = handleGetEmailExpense(emailText, matches, close)
    /\ pc' = "done"
    /\ UNCHANGED <<fn, emailText, content, parsedData, invoiceData, text, category>>
    /\ UNCHANGED ingestVars

NextEmail == HandleGetEmailExpense

SpecEmail == InitEmail /\ [][NextEmail]_vars

InitInvoice ==
    /\ fn = "handleGetInvoiceData"
    /\ pc = "call"
    /\ content \in Contents
    /\ parsedData = None
    /\ invoiceData = [status |-> None]
    /\ emailText = None /\ amountMatches = <<>> /\ expenseData = [status |-> None]
    /\ text = None /\ category = None
    /\ run = <<>> /\ processedEmails = {} /\ expenses = <<>> /\ emailBody = <<>> /\ failures = 0

\* one invocation of handleGetInvoiceData, the vision model answering content
HandleGetInvoiceData ==
    /\ fn = "handleGetInvoiceData"
    /\ pc = "call"
    /\ LET extracted == extractJSON(content)
       IN  /\ parsedData' = extracted
           /\ invoiceData' = handleGetInvoiceData(extracted)
    /\ pc' = "done"
    /\ UNCHANGED <<fn, content, emailText, amountMatches, expenseData, text, category>>
    /\ UNCHANGED ingestVars

NextInvoice == HandleGetInvoiceData

SpecInvoice == InitInvoice /\ [][NextInvoice]_vars

InitCategory ==
    /\ fn = "determineCategory"
    /\ pc = "call"
    /\ text \in CategoryTexts
    /\ category = None
    /\ emailText = None /\ amountMatches = <<>> /\ expenseData = [status |-> None]
    /\ content = None /\ parsedData = None /\ invoiceData = [status |-> None]
    /\ run = <<>> /\ processedEmails = {} /\ expenses = <<>> /\ emailBody = <<>> /\ failures = 0

\* one invocation of determineCategory(text)
DetermineCategory ==
    /\ fn = "determineCategory"
    /\ pc = "call"
    /\ category' = determineCategory(text)
    /\ pc' = "done"
    /\ UNCHANGED <<fn, text, emailText, amountMatches, expenseData,
                   content, parsedData, invoiceData>>
    /\ UNCHANGED ingestVars

NextCategory == DetermineCategory

SpecCategory == InitCategory /\ [][NextCategory]_vars

----------------------------------------------------------------------------
(* The e-mail ingestion: cronScheduler.ts and emailReader.ts.  A run of        *)
(* processAllUsersEmails goes user by user and message by message; every       *)
(* awaited call is a step of its own, which may fail while failures < the      *)
(* bound; run holds one record for each run that is going on.                  *)

MaxMessages == 2
MaxFailures == 2

\* the users UserModel.find gives, in its order
UserIds == <<"u1", "u2">>

\* response.data.messages of a user: the ids of the listed messages
Mailbox == 1..MaxMessages

\* the bodies extractEmailBody finds
MailBodies ==
    {None, "hello world", "Lunch at Cafe Rio for $12.00",
     "Lunch at Cafe Rio for $12.00 and a gift for $30.00"}

\* keywordToCategory, in the order of its keys
keywordToCategory ==
    << [category |-> "food", keywords |->
          <<"pizza", "burger", "sandwich", "pasta", "coffee", "snack", "dinner", "lunch",
            "breakfast", "food">>],
       [category |-> "rent", keywords |-> <<"rent", "lease", "mortgage">>],
       [category |-> "utility", keywords |->
          <<"electricity", "water", "gas", "internet", "phone", "heating", "cooling",
            "electric bill", "water bill", "gas bill", "internet bill", "phone bill",
            "utility">>],
       [category |-> "travel", keywords |->
          <<"flight", "train", "bus", "taxi", "uber", "lyft", "car rental", "airfare",
            "metro", "travel">>],
       [category |-> "entertainment", keywords |->
          <<"movie", "netflix", "concert", "game", "party", "show", "theater", "cinema",
            "entertainment">>],
       [category |-> "shopping", keywords |->
          <<"clothes", "shoes", "electronics", "makeup", "accessories", "jewelry",
            "furniture", "appliances", "shopping">>],
       [category |-> "health", keywords |->
          <<"medicine", "doctor", "hospital", "pharmacy", "checkup", "therapy", "surgery",
            "health">>],
       [category |-> "education", keywords |->
          <<"books", "tuition", "course", "workshop", "seminar", "study material",
            "online class", "education">>],
       [category |-> "gift", keywords |->
          <<"gift", "present", "donation", "charity", "wedding", "birthday">>],
       [category |-> "fitness", keywords |->
          <<"gym", "yoga", "workout", "trainer", "sports", "exercise", "fitness">>],
       [category |-> "investment", keywords |->
          <<"stocks", "shares", "mutual funds", "crypto", "savings", "bonds",
            "investment">>],
       [category |-> "unknown", keywords |-> <<>>] >>

\* the keywords of keywordToCategory
SpendKeywords ==
    UNION { {keywordToCategory[c].keywords[k] : k \in 1..Len(keywordToCategory[c].keywords)} :
            c \in 1..Len(keywordToCategory) }

\* the first category, in the order of the keys, one of whose keywords the
\* lower-cased head includes
getSpendType(transactionHead) ==
    LET lowerCaseHead == ToLowerCase(transactionHead)
        included == SpendKeywords \cap
                        UNION {Substrings(lowerCaseHead, n) :
                                 n \in {Len(w) : w \in SpendKeywords}}
        found == {c \in 1..Len(keywordToCategory) :
                    \E k \in 1..Len(keywordToCategory[c].keywords) :
                        keywordToCategory[c].keywords[k] \in included}
    IN  IF included = {} THEN "unknown" ELSE keywordToCategory[Min(found)].category

\* lines 101-118 of cronScheduler.ts: the expenses pushed for what a read gave;
\* the values the user schema accepts as the type of an expense
ExpenseTypeEnum ==
    {"food", "rent", "travel", "utility", "entertainment", "shopping", "health",
     "education", "gift", "fitness", "investment", "unknown"}

\* id, month, icon and time, which nothing here reads, are left out and the
\* message is kept with each expense
RECURSIVE NewExpenses(_, _)
NewExpenses(processed, i) ==
    IF i > Len(processed) THEN <<>>
    ELSE LET items == processed[i].expense.items
         IN  [k \in 1..Len(items) |->
                 [head      |-> items[k].title,
                  amount    |-> items[k].amount,
                  type      |-> getSpendType(items[k].title),
                  messageId |-> processed[i].messageId]]
             \o NewExpenses(processed, i + 1)

\* a run that has not started
NewRun ==
    [pc |-> "find", user |-> 0, message |-> 0, processedExpenses |-> <<>>,
     expenseData |-> [status |-> None], log |-> <<>>, read |-> None]

\* the for loop of processAllUsersEmails is through with r.user: processUserEmails
\* of the next user is to be called, or the loop ends
NextUser(r) ==
    IF r.user < Len(UserIds)
    THEN [r EXCEPT !.pc = "token"]
    ELSE [r EXCEPT !.pc = "end"]

\* readEmailsFromSender throws: line 38 of cronScheduler.ts catches it
UserFailed(r) == NextUser([r EXCEPT !.read = "threw"])

\* the outcomes of a message that are failures
Failures == {"fetch failed", "extraction failed", "record failed"}

\* the for loop of readEmailsFromSender, had it no try around a message: the
\* first failure ends the loop
NextMessageUntilFailure(r, outcome) ==
    LET logged == [r EXCEPT !.log = Append(@, outcome), !.expenseData = [status |-> None]]
    IN  IF r.message < MaxMessages /\ outcome \notin Failures
        THEN [logged EXCEPT !.pc = "lookup", !.message = @ + 1]
        ELSE IF Len(logged.processedExpenses) > 0
             THEN [logged EXCEPT !.pc = "save", !.read = "returned"]
        ELSE NextUser([logged EXCEPT !.read = "returned"])

\* the for loop of readEmailsFromSender is through with its message, outcome
\* logged: the next message, or the return of line 130 and what processUserEmails
\* does with it up to its user.save()
NextMessage(r, outcome) ==
    LET logged == [r EXCEPT !.log = Append(@, outcome), !.expenseData = [status |-> None]]
    IN  IF r.message < MaxMessages
        THEN [logged EXCEPT !.pc = "lookup", !.message = @ + 1]
        ELSE IF Len(logged.processedExpenses) > 0
             THEN [logged EXCEPT !.pc = "save", !.read = "returned"]
        ELSE NextUser([logged EXCEPT !.read = "returned"])

CanFail == failures < MaxFailures

\* line 95 of emailReader.ts: what handleGetEmailExpense gives for each body
ExpenseOf ==
    [s \in MailBodies \ {None}, close \in BOOLEAN |->
        handleGetEmailExpense(s, extractAmounts(s), close)]

InitIngest ==
    /\ fn = "processAllUsersEmails"
    /\ pc = "run"
    /\ emailText = None /\ amountMatches = <<>> /\ expenseData = [status |-> None]
    /\ content = None /\ parsedData = None /\ invoiceData = [status |-> None]
    /\ text = None /\ category = None
    /\ run = [r \in {"startup"} |-> NewRun]
    /\ processedEmails = {}
    /\ expenses = [u \in 1..Len(UserIds) |-> <<>>]
    /\ emailBody \in [Mailbox -> MailBodies]
    /\ failures = 0

\* lines 29-35 of cronScheduler.ts: UserModel.find; its failure ends the run
FindUsers(r) ==
    /\ fn = "processAllUsersEmails"
    /\ run[r].pc = "find"
    /\ \/ /\ CanFail
          /\ failures' = failures + 1
          /\ run' = [run EXCEPT ![r].pc = "end"]
       \/ /\ run' = [run EXCEPT ![r] = NextUser(@)]
          /\ UNCHANGED failures
    /\ UNCHANGED <<callVars, processedEmails, expenses, emailBody>>

\* lines 36 and 52-93: processUserEmails of the next user; the token is valid or
\* is refreshed, or the refresh fails and the user is left out
CheckToken(r) ==
    /\ run[r].pc = "token"
    /\ LET called == [run[r] EXCEPT !.user = @ + 1, !.message = 0, !.log = <<>>,
                                    !.processedExpenses = <<>>, !.read = None]
       IN  \/ /\ CanFail
              /\ failures' = failures + 1
              /\ run' = [run EXCEPT ![r] = NextUser(called)]
           \/ /\ run' = [run EXCEPT ![r] = [called EXCEPT !.pc = "list"]]
              /\ UNCHANGED failures
    /\ UNCHANGED <<callVars, processedEmails, expenses, emailBody>>

\* lines 52-67 of emailReader.ts: gmail.users.messages.list
ListMessages(r) ==
    /\ run[r].pc = "list"
    /\ \/ /\ CanFail
          /\ failures' = failures + 1
          /\ run' = [run EXCEPT ![r] = UserFailed(@)]
       \/ /\ run' = [run EXCEPT ![r] = NextUser([@ EXCEPT !.read = "returned"])]
          /\ UNCHANGED failures
       \/ /\ run' = [run EXCEPT ![r] = [@ EXCEPT !.pc = "lookup", !.message = 1]]
          /\ UNCHANGED failures
    /\ UNCHANGED <<callVars, processedEmails, expenses, emailBody>>

\* lines 71-79: ProcessedEmailModel.findOne, outside the try of line 80
FindProcessed(r) ==
    /\ run[r].pc = "lookup"
    /\ \/ /\ CanFail
          /\ failures' = failures + 1
          /\ run' = [run EXCEPT ![r] = UserFailed(@)]
       \/ /\ <<run[r].message, run[r].user>> \in processedEmails
          /\ run' = [run EXCEPT ![r] = NextMessage(@, "skipped")]
          /\ UNCHANGED failures
       \/ /\ <<run[r].message, run[r].user>> \notin processedEmails
          /\ run' = [run EXCEPT ![r].pc = "fetch"]
          /\ UNCHANGED failures
    /\ UNCHANGED <<callVars, processedEmails, expenses, emailBody>>

\* the handling of a message with the save of the record after the catch of
\* line 121: a failed extraction is recorded too
GetMessageRecordsFailure(r) ==
    /\ run[r].pc = "fetch"
    /\ \/ /\ CanFail
          /\ failures' = failures + 1
          /\ run' = [run EXCEPT ![r] = NextMessage(@, "fetch failed")]
       \/ /\ emailBody[run[r].message] \in {None, ""}
          /\ run' = [run EXCEPT ![r] = NextMessage(@, "no body")]
          /\ UNCHANGED failures
       \/ /\ emailBody[run[r].message] \notin {None, ""}
          /\ \E close \in BOOLEAN :
                run' = [run EXCEPT ![r] =
                          [@ EXCEPT !.pc = "record",
                                    !.expenseData = ExpenseOf[emailBody[run[r].message], close]]]
          /\ UNCHANGED failures
    /\ UNCHANGED <<callVars, processedEmails, expenses, emailBody>>

\* lines 82-96 and 121-127: gmail.users.messages.get, extractEmailBody and
\* handleGetEmailExpense
GetMessage(r) ==
    /\ run[r].pc = "fetch"
    /\ \/ /\ CanFail
          /\ failures' = failures + 1
          /\ run' = [run EXCEPT ![r] = NextMessage(@, "fetch failed")]
       \/ /\ emailBody[run[r].message] \in {None, ""}
          /\ run' = [run EXCEPT ![r] = NextMessage(@, "no body")]
          /\ UNCHANGED failures
       \/ /\ emailBody[run[r].message] \notin {None, ""}
          /\ \E close \in BOOLEAN :
                LET outcome == ExpenseOf[emailBody[run[r].message], close]
                IN  run' = [run EXCEPT ![r] =
                              IF outcome.status = "threw"
                              THEN NextMessage(@, "extraction failed")
                              ELSE [@ EXCEPT !.pc = "record", !.expenseData = outcome]]
          /\ UNCHANGED failures
    /\ UNCHANGED <<callVars, processedEmails, expenses, emailBody>>

\* the save of the ProcessedEmail record without the unique index of line 20
SaveProcessedNoIndex(r) ==
    /\ run[r].pc = "record"
    /\ \/ /\ CanFail
          /\ failures' = failures + 1
          /\ run' = [run EXCEPT ![r] = NextMessage(@, "record failed")]
          /\ UNCHANGED processedEmails
       \/ /\ processedEmails' = processedEmails \cup {<<run[r].message, run[r].user>>}
          /\ run' = [run EXCEPT ![r] =
                        NextMessage([@ EXCEPT !.processedExpenses =
                                        Append(@, [messageId |-> run[r].message,
                                                   expense   |-> run[r].expenseData])],
                                    "processed")]
          /\ UNCHANGED failures
    /\ UNCHANGED <<callVars, expenses, emailBody>>

\* lines 98-123: the ProcessedEmail record is saved, which the unique index of
\* line 20 refuses for a pair that is there, and the expense joins the results
SaveProcessed(r) ==
    /\ run[r].pc = "record"
    /\ \/ /\ CanFail
          /\ failures' = failures + 1
          /\ run' = [run EXCEPT ![r] = NextMessage(@, "record failed")]
          /\ UNCHANGED processedEmails
       \/ /\ <<run[r].message, run[r].user>> \in processedEmails
          /\ run' = [run EXCEPT ![r] = NextMessage(@, "record failed")]
          /\ UNCHANGED <<processedEmails, failures>>
       \/ /\ <<run[r].message, run[r].user>> \notin processedEmails
          /\ processedEmails' = processedEmails \cup {<<run[r].message, run[r].user>>}
          /\ run' = [run EXCEPT ![r] =
                        NextMessage([@ EXCEPT !.processedExpenses =
                                        Append(@, [messageId |-> run[r].message,
                                                   expense   |-> run[r].expenseData])],
                                    "processed")]
          /\ UNCHANGED failures
    /\ UNCHANGED <<callVars, expenses, emailBody>>

\* lines 100-121 of cronScheduler.ts: the expenses are pushed and user.save()
SaveUser(r) ==
    /\ run[r].pc = "save"
    /\ \/ /\ CanFail
          /\ failures' = failures + 1
          /\ run' = [run EXCEPT ![r] = NextUser(@)]
          /\ UNCHANGED expenses
       \/ /\ expenses' = [expenses EXCEPT ![run[r].user] =
                              @ \o NewExpenses(run[r].processedExpenses, 1)]
          /\ run' = [run EXCEPT ![r] = NextUser(@)]
          /\ UNCHANGED failures
    /\ UNCHANGED <<callVars, processedEmails, emailBody>>

\* lines 16-19 of cronScheduler.ts: the schedule calls processAllUsersEmails again
CronJob(r) ==
    /\ run[r].pc = "end"
    /\ run' = [run EXCEPT ![r] = NewRun]
    /\ UNCHANGED <<callVars, processedEmails, expenses, emailBody, failures>>

NextIngest ==
    \E r \in DOMAIN run :
        \/ FindUsers(r)
        \/ CheckToken(r)
        \/ ListMessages(r)
        \/ FindProcessed(r)
        \/ GetMessage(r)
        \/ SaveProcessed(r)
        \/ SaveUser(r)
        \/ CronJob(r)

SpecIngest == InitIngest /\ [][NextIngest]_vars

\* Two runs of processAllUsersEmails that overlap: a run started by the schedule
\* that is still going on when the next tick starts another one (the callback of
\* cron.schedule is not awaited), over mailboxes whose messages all extract,
\* with one failure left to happen
InitOverlap ==
    /\ fn = "processAllUsersEmails"
    /\ pc = "run"
    /\ emailText = None /\ amountMatches = <<>> /\ expenseData = [status |-> None]
    /\ content = None /\ parsedData = None /\ invoiceData = [status |-> None]
    /\ text = None /\ category = None
    /\ run = [r \in {"cron", "next"} |-> NewRun]
    /\ processedEmails = {}
    /\ expenses = [u \in 1..Len(UserIds) |-> <<>>]
    /\ emailBody \in {[m \in Mailbox |-> b] :
                          b \in {s \in MailBodies \ {None} :
                                    ExpenseOf[s, TRUE].status = "returned"}}
    /\ failures = MaxFailures - 1

NextOverlap ==
    \E r \in DOMAIN run :
        \/ FindUsers(r)
        \/ CheckToken(r)
        \/ ListMessages(r)
        \/ FindProcessed(r)
        \/ GetMessage(r)
        \/ SaveProcessed(r)
        \/ SaveUser(r)

SpecOverlap == InitOverlap /\ [][NextOverlap]_vars

\* any one invocation of the three functions
Init == InitEmail \/ InitInvoice \/ InitCategory

Next == HandleGetEmailExpense \/ HandleGetInvoiceData \/ DetermineCategory

Spec == Init /\ [][Next]_vars

----------------------------------------------------------------------------
(* Properties of handleGetEmailExpense *)

EmailDone == fn = "handleGetEmailExpense" /\ pc = "done"

EmailReturned == EmailDone /\ expenseData.status = "returned"

\* the positions of s where a number (a run of digits, commas and dots) begins
NumberRuns(s) ==
    {i \in 1..Len(s) :
        /\ IsDigit(Char(s, i))
        /\ i > 1 => ~(IsDigit(Char(s, i - 1)) \/ Char(s, i - 1) \in {",", "."})}

ImplicitItem(amount) ==
    [amount |-> amount, title |-> "Expense from email", head |-> "unknown"]

\* C1: for a text in which one monetary amount occurs once, whatever the number
\* of patterns that match it, the result is that amount as total and exactly the
\* one item {amount, "Expense from email", "unknown"}
C1_SingleAmount ==
    (EmailDone /\ Cardinality(NumberRuns(emailText)) = 1 /\ Len(amountMatches) > 0)
        => /\ expenseData.status = "returned"
           /\ expenseData.total = amountMatches[1].amount
           /\ expenseData.items = <<ImplicitItem(amountMatches[1].amount)>>

\* C2 as stated: the total of every result is the sum of the amounts of its
\* items, and the amount of a lone item is the largest candidate
C2_TotalIsSum ==
    EmailReturned
        => /\ expenseData.total = SumAmounts(expenseData.items, 1)
           /\ Len(expenseData.items) = 1
                 => expenseData.items[1].amount = LargestAmount(amountMatches)

\* C2 as amended: the total is the sum of the items when there are several items
\* or the lone item is the largest candidate; a lone item two cents or more away
\* from the largest candidate leaves the largest candidate as total; at one cent
\* the total is one of the two
C2_TotalIsSumOrLargest ==
    EmailReturned
        => LET items   == expenseData.items
               sum     == SumAmounts(items, 1)
               largest == LargestAmount(amountMatches)
           IN  /\ (Len(items) > 1 \/ sum = largest) => expenseData.total = sum
               /\ (Len(items) = 1 /\ Abs(sum - largest) >= 2) => expenseData.total = largest
               /\ expenseData.total \in {sum, largest}

\* a lone listed item below the largest candidate, which stays the total
C2_LoneItemBelowTotal ==
    /\ EmailReturned
    /\ emailText = "Total: $45.00 Lunch at Cafe Rio for $12.00"
    /\ Len(expenseData.items) = 1
    /\ expenseData.items[1].amount = 1200
    /\ expenseData.total = 4500

\* the error of the call when anything else in the try block throws
handleGetEmailExpenseOtherFailure ==
    EmailCatchBlock([status |-> "threw", error |-> "TypeError"]).error

\* C3: a text without a valid candidate makes the call fail with an error that
\* differs from the error of its other failures, and no result is returned
C3_NoAmountError ==
    (EmailDone /\ Len(amountMatches) = 0)
        => /\ expenseData.status = "threw"
           /\ expenseData.error # handleGetEmailExpenseOtherFailure

\* C5: every result of either pipeline has at least one item
C5_ItemsNonEmpty ==
    /\ EmailReturned => Len(expenseData.items) > 0
    /\ (fn = "handleGetInvoiceData" /\ pc = "done" /\ invoiceData.status = "returned")
          => /\ Get(invoiceData.value, "items").type = "array"
             /\ Len(Get(invoiceData.value, "items").elems) > 0

\* three candidates or more, every one the largest and so skipped by the loop
C5_EveryCandidateSkipped ==
    /\ EmailReturned
    /\ Len(amountMatches) > 2
    /\ \A i \in 1..Len(amountMatches) : amountMatches[i].amount = LargestAmount(amountMatches)
    /\ Len(expenseData.items) = 1

\* the candidates below the largest one
BelowLargest(matches) ==
    {i \in 1..Len(matches) : matches[i].amount < LargestAmount(matches)}

RECURSIVE SumOver(_, _)
SumOver(matches, indices) ==
    IF indices = {} THEN 0
    ELSE LET i == Min(indices)
         IN  matches[i].amount + SumOver(matches, indices \ {i})

\* C12: with more than two candidates, two or more of them below the largest, no
\* item has the largest value and the total is the sum of the candidates below
\* it; three candidates of distinct values give the sum of the two smaller ones
C12_TotalOfSmallerItems ==
    (EmailDone /\ Len(amountMatches) > 2 /\ Cardinality(BelowLargest(amountMatches)) >= 2)
        => /\ expenseData.status = "returned"
           /\ \A k \in 1..Len(expenseData.items) :
                 expenseData.items[k].amount < LargestAmount(amountMatches)
           /\ Len(expenseData.items) = Cardinality(BelowLargest(amountMatches))
           /\ expenseData.total = SumOver(amountMatches, BelowLargest(amountMatches))

\* three dollar amounts of distinct values: 4.50 + 3.25 is the total
C12_ThreeDistinctAmounts ==
    /\ EmailReturned
    /\ emailText = "Coffee $4.50 and bagel $3.25 $44.99"
    /\ Len(amountMatches) = 3
    /\ Len(expenseData.items) = 2
    /\ expenseData.total = 775

\* C13: exactly two candidates both become items, in their order, also when
\* their values are equal and so both are the largest
C13_TwoCandidatesKept ==
    (EmailDone /\ Len(amountMatches) = 2)
        => /\ expenseData.status = "returned"
           /\ Len(expenseData.items) = 2
           /\ \A k \in 1..2 : expenseData.items[k].amount = amountMatches[k].amount

\* two occurrences of the same value: both are items
C13_TwoEqualAmounts ==
    /\ EmailReturned
    /\ emailText = "$44.99 $44.99"
    /\ Len(amountMatches) = 2
    /\ Len(expenseData.items) = 2
    /\ expenseData.items[1].amount = 4499 /\ expenseData.items[2].amount = 4499

\* C14: an amount with thousands separators and two decimals is a candidate of
\* exactly the value its digits spell, whatever the number of groups
C14_ThousandsSeparators ==
    EmailDone
        => /\ Includes(emailText, "$1,234.56")
                 => \E i \in 1..Len(amountMatches) :
                       amountMatches[i].text = "$1,234.56" /\ amountMatches[i].amount = 123456
           /\ Includes(emailText, "$1,234,567.89")
                 => \E i \in 1..Len(amountMatches) :
                       /\ amountMatches[i].text = "$1,234,567.89"
                       /\ amountMatches[i].amount = 123456789

\* two groups of three digits
C14_TwoGroups ==
    /\ EmailReturned
    /\ emailText = "$1,234,567.89"
    /\ Len(amountMatches) = 1
    /\ amountMatches[1].amount = 123456789
    /\ expenseData.total = 123456789

\* the window of the original text around a candidate, before line 58 lower-cases it
OriginalWindow(s, match) ==
    LET start == IF match.index - 50 > 0 THEN match.index - 50 ELSE 0
        stop  == IF match.index + Len(match.text) + 50 < Len(s)
                 THEN match.index + Len(match.text) + 50 ELSE Len(s)
    IN  SubSeq(s, start + 1, stop)

\* no merchant pattern matches the context createTitle is given for the candidate
NoMerchant(s, match) ==
    LET context == RemoveFirst(SurroundingText(s, match), match.text)
    IN  \A k \in 1..NumMerchantPatterns : ~MerchantMatch(k, context, ToLowerCase(context)).ok

\* the first capitalized run of the original window without the amount text
CapitalizedRun(s, match) ==
    LET original == RemoveFirst(OriginalWindow(s, match), match.text)
        b == BusinessNameFrom(original, 1)
    IN  IF b.ok THEN Trim(SubSeq(original, b.from, b.to - 1)) ELSE None

\* C17: when no merchant pattern matches the context of a candidate and the
\* window of the original text holds a capitalized run, the title of its item
\* is the first such run; the title is "Expense" only when there is no
\* capitalized run (texts of two candidates, where each candidate is an item)
C17_CapitalizedRunIsTitle ==
    (EmailReturned /\ Len(amountMatches) = 2) =>
        \A k \in 1..2 :
            NoMerchant(emailText, amountMatches[k]) =>
                LET b == CapitalizedRun(emailText, amountMatches[k])
                IN  /\ b # None => expenseData.items[k].title = b
                    /\ expenseData.items[k].title = "Expense" => b = None

\* the text has digits and every one of them is 0: its only amounts are zero
OnlyZeroAmounts(s) ==
    /\ \E i \in 1..Len(s) : IsDigit(Char(s, i))
    /\ \A i \in 1..Len(s) : IsDigit(Char(s, i)) => Char(s, i) = "0"

\* the candidate was matched right after a minus sign: a negative amount
Negative(s, match) == match.index >= 1 /\ Char(s, match.index) = "-"

\* every candidate is strictly positive, and a text whose only amounts are zero fails
PositiveCandidates ==
    EmailDone =>
        /\ \A k \in 1..Len(amountMatches) : amountMatches[k].amount > 0
        /\ OnlyZeroAmounts(emailText) => expenseData.status = "threw"

\* C18: negative and zero amounts never become candidates or items: every
\* candidate is strictly positive, a text whose only amounts are zero fails,
\* and no item of the result has the value of an amount written with a minus sign
C18_NoNegativeOrZero ==
    /\ PositiveCandidates
    /\ EmailReturned =>
          \A k \in 1..Len(amountMatches) :
              Negative(emailText, amountMatches[k]) =>
                  \A i \in 1..Len(expenseData.items) :
                      expenseData.items[i].amount # amountMatches[k].amount

\* the regexes that match the text of a candidate at its offset (low is s
\* lower-cased)
Matchers(s, low, match) ==
    {r \in 1..NumRegexes :
        LET m == RegexMatchAt(r, s, low, match.index + 1)
        IN  m.ok /\ m.to - m.from = Len(match.text)}

\* the leftmost match of amountRegexes[r] in s, as the candidate it makes
FirstMatch(r, s, low) ==
    LET at == {i \in RegexStarts(r, s, low) : RegexMatchAt(r, s, low, i).ok}
    IN  IF at = {} THEN <<>>
        ELSE MatchRecord(s, RegexMatchAt(r, s, low, Min(at)))

\* a[i..] is a subsequence of b[j..]
RECURSIVE IsSubsequence(_, _, _, _)
IsSubsequence(a, b, i, j) ==
    IF i > Len(a) THEN TRUE
    ELSE IF j > Len(b) THEN FALSE
    ELSE IF a[i] = b[j] THEN IsSubsequence(a, b, i + 1, j + 1)
    ELSE IsSubsequence(a, b, i, j + 1)

\* C20: the candidates are in the order of their matchers and, for one matcher,
\* of their offsets; the first matches of two matchers are two candidates even
\* when they are the same amount; and the amounts of the items are a
\* subsequence of the amounts of the candidates
C20_MatcherThenOffsetOrder ==
    EmailDone =>
        LET low      == ToLowerCase(emailText)
            matchers == [k \in 1..Len(amountMatches) |->
                            Matchers(emailText, low, amountMatches[k])]
            first    == [r \in 1..NumRegexes |-> FirstMatch(r, emailText, low)]
        IN  /\ \A i \in 1..Len(amountMatches) : \A j \in 1..Len(amountMatches) :
                  i < j =>
                      \E ri \in matchers[i] : \E rj \in matchers[j] :
                          \/ ri < rj
                          \/ ri = rj /\ amountMatches[i].index < amountMatches[j].index
            /\ \A r1 \in 1..NumRegexes : \A r2 \in 1..NumRegexes :
                  (r1 < r2 /\ first[r1] # <<>> /\ first[r2] # <<>>)
                      => \E k1 \in 1..Len(amountMatches) : \E k2 \in 1..Len(amountMatches) :
                            /\ k1 < k2
                            /\ amountMatches[k1] = first[r1][1]
                            /\ amountMatches[k2] = first[r2][1]
            /\ expenseData.status = "returned" =>
                  IsSubsequence([k \in 1..Len(expenseData.items) |-> expenseData.items[k].amount],
                                [k \in 1..Len(amountMatches) |-> amountMatches[k].amount], 1, 1)

\* one amount matched by two matchers: two candidates, in matcher order
C20_SameAmountTwice ==
    /\ EmailReturned
    /\ emailText = "Your payment of $45.00 was successful"
    /\ Len(amountMatches) = 2
    /\ amountMatches[1].text = "$45.00" /\ amountMatches[1].index = 16
    /\ amountMatches[2].text = "payment of $45.00" /\ amountMatches[2].index = 5
    /\ Len(expenseData.items) = 2

\* the place in the text of the first digit of the candidate m, where its
\* number begins
NumberStart(m) ==
    m.index + Min({i \in 1..Len(m.text) : IsDigit(Char(m.text, i))})

\* the place in s of the last digit of the integer part of the candidate m
IntegerEnd(s, m) ==
    CHOOSE q \in NumberStart(m)..(m.index + Len(m.text)) :
        /\ AllDigits(s, NumberStart(m), q)
        /\ ~(q < m.index + Len(m.text) /\ DigitAt(s, q + 1))

\* the digit at place p of s belongs to a run of more than three digits
InLongDigitRun(s, p) ==
    \E a \in 1..p : a + 3 >= p /\ a + 3 <= Len(s) /\ AllDigits(s, a, a + 3)

\* C25: a candidate recorded for an amount whose integer part is a run of more
\* than three digits covers the whole run: no digit of the text stands right
\* before its number or right after its integer part
C25_LongDigitRunsRecordedWhole ==
    EmailDone =>
        \A i \in 1..Len(amountMatches) :
            LET m == amountMatches[i]
            IN  InLongDigitRun(emailText, NumberStart(m)) =>
                    /\ ~DigitAt(emailText, NumberStart(m) - 1)
                    /\ ~DigitAt(emailText, IntegerEnd(emailText, m) + 1)

----------------------------------------------------------------------------
(* Properties of extractJSON and handleGetInvoiceData *)

InvoiceDone == fn = "handleGetInvoiceData" /\ pc = "done"

InvoiceReturned == InvoiceDone /\ invoiceData.status = "returned"

\* a non-negative finite number
FiniteNonNegative(v) == v.type = "number" /\ v.num >= 0

\* C4: the total of every result of either pipeline is a finite number >= 0
C4_TotalFiniteNonNegative ==
    /\ EmailReturned => expenseData.total >= 0
    /\ InvoiceReturned => FiniteNonNegative(Get(invoiceData.value, "total"))

\* a structured response was parsed
Parsed == InvoiceDone /\ parsedData.status = "returned" /\ parsedData.value # JNull

\* a number, or a string that spells one
Numeric(v) == v.type \in {"number", "string"} /\ ToNumber(v).type = "number"

HasItems(data) ==
    /\ Get(data, "items").type = "array"
    /\ Len(Get(data, "items").elems) > 0

\* C6: after a response was parsed the call fails exactly when the total is
\* missing or not numeric or the items are absent or empty
C6_FailsExactlyWhenInvalid ==
    Parsed => (invoiceData.status = "threw"
                  <=> ~(Numeric(Get(parsedData.value, "total")) /\ HasItems(parsedData.value)))

\* C7: a parsed response that has a total and items is returned, whatever the
\* categories of its items, with every category in the vocabulary and "unknown"
\* for each one that was outside it or absent
C7_CategoryClamped ==
    (Parsed /\ ~MissingRequiredFields(parsedData.value))
        => /\ invoiceData.status = "returned"
           /\ LET parsedItems == Get(parsedData.value, "items").elems
                  items       == Get(invoiceData.value, "items").elems
              IN  /\ Len(items) = Len(parsedItems)
                  /\ \A i \in 1..Len(items) :
                        /\ Get(items[i], "head").type = "string"
                        /\ Get(items[i], "head").str \in Heads
                        /\ (\/ Get(parsedItems[i], "head").type # "string"
                            \/ ToLowerCase(Get(parsedItems[i], "head").str) \notin Heads)
                              => Get(items[i], "head").str = "unknown"

\* a form of extractJSON that is there and whose JSON.parse succeeds
Parses(form) == form.found /\ form.parsed.ok

CodeBlockParses(s) == Parses(CodeBlockForm(s))

\* C8: extractJSON gives the markdown form when it parses, else the code block
\* when it parses, else the braces when they parse, else the whole text; markdown
\* with a total and items wins over a fenced JSON document next to it
C8_FormOrder ==
    InvoiceDone
        => LET markdown  == MarkdownForm(content)
               codeBlock == CodeBlockForm(content)
               braces    == BracesForm(content)
               whole     == WholeForm(content)
           IN  /\ markdown # JNull => parsedData = Returned(markdown)
               /\ (markdown = JNull /\ Parses(codeBlock))
                     => parsedData = Returned(codeBlock.parsed.value)
               /\ (markdown = JNull /\ ~Parses(codeBlock) /\ Parses(braces))
                     => parsedData = Returned(braces.parsed.value)
               /\ (markdown = JNull /\ ~Parses(codeBlock) /\ ~Parses(braces) /\ Parses(whole))
                     => parsedData = Returned(whole.parsed.value)
               /\ (Parses(codeBlock) /\ extractItemsFromMarkdown(content) # JNull)
                     => parsedData = Returned(extractItemsFromMarkdown(content))

\* the markdown bill followed by a fenced JSON document: the bill is returned
C8_MarkdownBeforeFence ==
    /\ InvoiceDone
    /\ content = MarkdownBill \o "\n" \o FencedTaxi
    /\ CodeBlockParses(content)
    /\ Get(parsedData.value, "total") = JNum(1250)

\* C9: extractJSON always returns; a code block or braces that do not parse leave
\* the result to the next form, and when no form parses the result is null
C9_NeverRaises ==
    InvoiceDone
        => LET markdown  == MarkdownForm(content)
               codeBlock == CodeBlockForm(content)
               braces    == BracesForm(content)
               whole     == WholeForm(content)
           IN  /\ parsedData.status = "returned"
               /\ (/\ markdown = JNull /\ ~Parses(codeBlock)
                   /\ ~Parses(braces) /\ ~Parses(whole))
                     => parsedData.value = JNull
               /\ (markdown = JNull /\ codeBlock.found /\ ~codeBlock.parsed.ok /\ Parses(braces))
                     => parsedData.value = braces.parsed.value
               /\ (/\ markdown = JNull /\ ~Parses(codeBlock)
                   /\ braces.found /\ ~braces.parsed.ok /\ Parses(whole))
                     => parsedData.value = whole.parsed.value

\* a fence around prose, which does not parse, before a document in braces
C9_FenceFallsThrough ==
    /\ InvoiceDone
    /\ content = FencedProse \o "\n" \o TaxiDoc
    /\ CodeBlockForm(content).found /\ ~CodeBlockParses(content)
    /\ parsedData = Returned(JsonParse(TaxiDoc).value)

\* the positions of s at which a three-line bullet group parses
BulletGroups(s) == {i \in 1..Len(s) : ItemMatchAt(s, i).ok}

\* C19: the markdown form gives the result only when the total label is there
\* and a bullet group parses, and then the result has that total and items;
\* when the text has ** and the total or every group is missing, the result is
\* that of the code block, braces and whole text forms, not null or a total
\* without items
C19_MarkdownNeedsTotalAndItems ==
    (InvoiceDone /\ Includes(content, "**"))
        => LET total  == TotalMatch(content)
               groups == BulletGroups(content)
           IN  /\ (total # "" /\ groups # {})
                     => /\ parsedData.status = "returned"
                        /\ Get(parsedData.value, "total") = UnsignedNumber(total)
                        /\ HasItems(parsedData.value)
               /\ (total = "" \/ groups = {})
                     => parsedData = TryCodeBlock(content)

\* a total label without bullet groups before a fenced document: the document
\* is the result
C19_TotalWithoutItems ==
    /\ InvoiceDone
    /\ content = MarkdownTotal \o "\n" \o FencedTaxi
    /\ TotalMatch(content) = "12.50"
    /\ BulletGroups(content) = {}
    /\ parsedData = Returned(JsonParse(TaxiDoc).value)

----------------------------------------------------------------------------
(* Properties of determineCategory *)

CategoryDone == fn = "determineCategory" /\ pc = "done"

\* C10: determineCategory gives a label of the fixed set, and "unknown" exactly
\* when no keyword of the table is a substring of the text
C10_Classification ==
    CategoryDone
        => /\ category \in Heads
           /\ category = "unknown" <=> \A keyword \in AllKeywords : ~Includes(text, keyword)

\* the table entries that have a keyword in t
CategoriesIn(t) ==
    {c \in 1..Len(categoryKeywords) :
        \E k \in 1..Len(categoryKeywords[c].keywords) :
            Includes(t, categoryKeywords[c].keywords[k])}

\* C11: when keywords of several categories occur in the text, the category
\* returned is the first of them in the order of the table, wherever in the text
\* the keywords stand
C11_FirstInTableOrder ==
    (CategoryDone /\ CategoriesIn(text) # {})
        => category = categoryKeywords[Min(CategoriesIn(text))].category

\* a keyword of travel before a keyword of food: food, first in the table, wins
C11_LaterKeywordWins ==
    /\ CategoryDone
    /\ text = "uber lunch"
    /\ Cardinality(CategoriesIn(text)) > 1
    /\ category = "food"

\* a text no keyword occurs in, the capital of "Food" keeping "food" out
C10_NoKeyword ==
    /\ CategoryDone
    /\ text = "Food hello"
    /\ category = "unknown"

\* C26: every keyword of the table is effective: determineCategory of the
\* keyword k listed under the category c gives c
C26_EveryKeywordEffective ==
    CategoryDone =>
        \A c \in 1..Len(categoryKeywords) :
            \A k \in 1..Len(categoryKeywords[c].keywords) :
                text = categoryKeywords[c].keywords[k]
                    => category = categoryKeywords[c].category

\* the keywords that determineCategory gives to another category than the one
\* they are listed under
ShadowedKeywords ==
    {w \in AllKeywords :
        \E c \in 1..Len(categoryKeywords) :
            /\ \E k \in 1..Len(categoryKeywords[c].keywords) :
                  categoryKeywords[c].keywords[k] = w
            /\ determineCategory(w) # categoryKeywords[c].category}

----------------------------------------------------------------------------
(* Properties of the ingestion *)

\* the last read of run r is over: r.user is its user, r.log the outcome of each
\* message it came to and r.processedExpenses what it had to return
ReadOver(r) == run[r].read # None

\* message j had no ProcessedEmail record when the read of run r came to it, or
\* has none now when the read did not come to it
NotYetProcessed(r, j) ==
    IF j <= Len(run[r].log)
    THEN run[r].log[j] # "skipped"
    ELSE <<j, run[r].user>> \notin processedEmails

\* handleGetEmailExpense gives an expense for the body of message j
Extracts(j) ==
    /\ emailBody[j] \notin {None, ""}
    /\ \E close \in BOOLEAN : ExpenseOf[emailBody[j], close].status = "returned"

\* the read of run r returned message j
ReturnedMessage(r, j) ==
    /\ run[r].read = "returned"
    /\ \E k \in 1..Len(run[r].processedExpenses) : run[r].processedExpenses[k].messageId = j

\* the handling of message i failed in the read of run r
FailedAt(r, i) == i <= Len(run[r].log) /\ run[r].log[i] \in Failures

\* every user was handed to processUserEmails when the loop over them ended
AllUsersTried(r) == run[r].pc = "end" => run[r].user \in {0, Len(UserIds)}

\* C15 as stated: after a failure while fetching, extracting or recording a
\* message, every later message of the list that was not yet processed and
\* whose body extracts successfully is returned by the read, and a failure for
\* one user does not keep the loop from the remaining users.
C15_LaterMessagesReturned ==
    \A r \in DOMAIN run :
        /\ ReadOver(r) =>
              \A i \in Mailbox : \A j \in Mailbox :
                  i < j /\ FailedAt(r, i) /\ NotYetProcessed(r, j) /\ Extracts(j)
                     => ReturnedMessage(r, j)
        /\ AllUsersTried(r)

\* C15, amended: a failure while fetching, extracting or recording a message
\* does not end the read: a read that returns came to every message of the
\* list, and returns every message that had no record, whose body extracts
\* and whose own fetch and record did not fail; a read that throws (the list
\* or an already-processed lookup failed) returns nothing, whatever was
\* recorded before; and the loop over the users comes to every user.
C15_FailureKeptToItsMessage ==
    \A r \in DOMAIN run :
        /\ ReadOver(r) /\ run[r].read = "returned" =>
              /\ Len(run[r].log) \in {0, MaxMessages}
              /\ \A j \in 1..Len(run[r].log) :
                    ReturnedMessage(r, j) <=>
                        /\ Extracts(j)
                        /\ run[r].log[j] \notin {"skipped", "fetch failed", "record failed"}
        /\ ReadOver(r) /\ run[r].read = "threw" =>
              /\ Len(run[r].log) < MaxMessages
              /\ \A j \in Mailbox : ~ReturnedMessage(r, j)
        /\ AllUsersTried(r)

\* a read returned its second message after the first one failed
C15_ReturnedAfterFailure ==
    /\ ReadOver("startup")
    /\ FailedAt("startup", 1)
    /\ ReturnedMessage("startup", 2)

\* the expenses of user u that come from message m
ExpensesOf(u, m) == {k \in 1..Len(expenses[u]) : expenses[u][k].messageId = m}

\* the runs whose read for user u has message m among what it returns
Holders(u, m) ==
    {r \in DOMAIN run :
        /\ run[r].user = u
        /\ \E k \in 1..Len(run[r].processedExpenses) : run[r].processedExpenses[k].messageId = m}

\* a run that looks up a message that has a record does not go on to fetch it
SkipsRecorded ==
    \A r \in DOMAIN run :
        (/\ run[r].pc = "lookup"
         /\ <<run[r].message, run[r].user>> \in processedEmails
         /\ run'[r] # run[r])
            => run'[r].pc # "fetch" /\ run'[r].expenseData = [status |-> None]

\* C21: whatever the order and the interleaving of two runs, the items of a
\* message are among the expenses of a user at most once and at most one run
\* returns the message, and a message that has a record is skipped at its
\* lookup, neither fetched nor extracted
C21_ItemsAtMostOnce ==
    /\ [](\A u \in 1..Len(UserIds) : \A m \in Mailbox :
            /\ Cardinality(ExpensesOf(u, m)) \in {0, Len(ExpenseOf[emailBody[m], TRUE].items)}
            /\ Cardinality(Holders(u, m)) <= 1)
    /\ [][SkipsRecorded]_vars

\* both runs passed the lookup of the first message of the first user; the
\* save of the one was refused by the index and the items were added once
C21_SecondSaveRefused ==
    /\ fn = "processAllUsersEmails"
    /\ failures = MaxFailures - 1
    /\ run["cron"].user = 1 /\ run["next"].user = 1
    /\ Len(run["cron"].log) >= 1 /\ run["cron"].log[1] = "processed"
    /\ Len(run["next"].log) >= 1 /\ run["next"].log[1] = "record failed"
    /\ Cardinality(ExpensesOf(1, 1)) = Len(ExpenseOf[emailBody[1], TRUE].items)
    /\ Cardinality(ExpensesOf(1, 1)) = 2

\* run r is at work for user u: past the call of processUserEmails and not yet
\* through its user.save()
InProgress(r, u) ==
    run[r].user = u /\ run[r].pc \in {"list", "lookup", "fetch", "record", "save"}

\* C22: when a ProcessedEmail record exists for a message and a user and no run
\* is at work for that user, the items extracted from the message are among
\* the stored expenses of the user
C22_RecordedItemsStored ==
    \A u \in 1..Len(UserIds) : \A m \in Mailbox :
        (<<m, u>> \in processedEmails /\ \A r \in DOMAIN run : ~InProgress(r, u))
            => /\ Extracts(m)
               /\ Cardinality(ExpensesOf(u, m)) = Len(ExpenseOf[emailBody[m], TRUE].items)

\* the messages of the list the loop of the last read of run r came to
CameTo(r) == 1..run[r].message

\* a record exists only for a message whose body was found and extracted, a
\* message whose handling failed or that has no body has no record, and a
\* message is skipped only when it has a record
RecordMeansExtracted ==
    \A r \in DOMAIN run :
        /\ \A u \in 1..Len(UserIds) : \A m \in Mailbox :
              <<m, u>> \in processedEmails => Extracts(m)
        /\ run[r].pc \notin {"find", "token", "end"} =>
              \A j \in 1..Len(run[r].log) :
                  /\ run[r].log[j] \in {"no body", "fetch failed", "extraction failed"}
                        => <<j, run[r].user>> \notin processedEmails
                  /\ run[r].log[j] = "skipped" => <<j, run[r].user>> \in processedEmails

\* C23 as stated: a record exists only for a message whose body was found and
\* extracted; a message with no body or a failed fetch or extraction has no
\* record, and every run that lists a message without a record comes to it and
\* does not skip it
C23_UnrecordedAlwaysRetried ==
    /\ RecordMeansExtracted
    /\ \A r \in DOMAIN run :
          (ReadOver(r) /\ run[r].message >= 1) =>
              \A m \in Mailbox :
                  <<m, run[r].user>> \notin processedEmails
                      => m \in CameTo(r) /\ (m <= Len(run[r].log) => run[r].log[m] # "skipped")

\* C23, amended: as stated, but a run that lists the message comes to it only
\* when the read is not ended before by a lookup that throws; a read that
\* returns came to every message without a record and did not skip it
C23_UnrecordedRetriedUnlessAborted ==
    /\ RecordMeansExtracted
    /\ \A r \in DOMAIN run :
          (ReadOver(r) /\ run[r].message >= 1) =>
              \A m \in Mailbox :
                  <<m, run[r].user>> \notin processedEmails
                      => IF m \in CameTo(r)
                         THEN m <= Len(run[r].log) => run[r].log[m] # "skipped"
                         ELSE run[r].read = "threw"

\* a later run fetched again a message that an earlier run had left without a
\* record, next to a message it skipped
C23_RetriedInLaterRun ==
    /\ fn = "processAllUsersEmails"
    /\ ReadOver("startup")
    /\ run["startup"].user = 1
    /\ run["startup"].log = <<"skipped", "no body">>
    /\ processedEmails = {<<1, 1>>}

\* the place of the stored expense k of user u among those of its message
ItemIndex(u, k) ==
    Cardinality({j \in ExpensesOf(u, expenses[u][k].messageId) : j <= k})

\* C24: every expense appended from an ingested email has as its type the
\* category (head) that handleGetEmailExpense gave to the line item it was made
\* from, and a type that the user schema accepts
C24_TypeIsItemCategory ==
    \A u \in 1..Len(UserIds) : \A k \in 1..Len(expenses[u]) :
        LET e == expenses[u][k]
            items == ExpenseOf[emailBody[e.messageId], TRUE].items
            item == items[ItemIndex(u, k)]
        IN  /\ ItemIndex(u, k) <= Len(items)
            /\ e.head = item.title /\ e.amount = item.amount
            /\ e.type = item.head
            /\ e.type \in ExpenseTypeEnum

\* the part of C24 that holds: every stored expense is made from the line item
\* at its place, and its type is getSpendType of the title, within the enum
StoredTypeFromTitle ==
    \A u \in 1..Len(UserIds) : \A k \in 1..Len(expenses[u]) :
        LET e == expenses[u][k]
            items == ExpenseOf[emailBody[e.messageId], TRUE].items
        IN  /\ ItemIndex(u, k) <= Len(items)
            /\ e.head = items[ItemIndex(u, k)].title
            /\ e.amount = items[ItemIndex(u, k)].amount
            /\ e.type = getSpendType(e.head)
            /\ e.type \in ExpenseTypeEnum

====
